---- MODULE Spec2Model ----
(***************************************************************************)
(* Webhook registry / validator and message relay of DiscordWeb            *)
(* (src/server.js, src/unnamed/part_001).                                  *)
(*                                                                         *)
(* The repository holds three revisions of the same server.  Two of them   *)
(* (server.js 1-231 and part_001) fail a Register at once when the remote  *)
(* platform answers 429; the third (server.js 233-443) sleeps for the      *)
(* suggested delay and calls validateWebhook again.  The variable          *)
(* `variant` says which revision is deployed.                              *)
(*                                                                         *)
(* A JavaScript handler runs to completion between two awaits, so one      *)
(* action is one such run: from the arrival of the request (or of the      *)
(* awaited result) to the next await or to the response.                   *)
(*                                                                         *)
(* Some variables observe the program and are not part of it: `last` is    *)
(* what the latest step did (the request that arrived or resumed, the      *)
(* response it wrote, whether it called fetch), `answer` is what the       *)
(* awaited remote call that settled in the latest step produced (NoAnswer  *)
(* when none settled), and `windowStart` is, per                           *)
(* URL, the time of the latest validation attempt for it (a Register call  *)
(* or the retry after a sleep) that was not rejected by the format or the  *)
(* cooldown check (the attempt that opened the URL's                       *)
(* current cooldown window), and `validatedOk` is the set of URLs the      *)
(* remote platform has answered with a success status.  `calls` in a       *)
(* handler's record counts the remote validation calls the request has     *)
(* issued so far.                                                          *)
(*                                                                         *)
(* The bot session and the route that reads a channel's messages are       *)
(* modelled by `login` (the promise of client.login), `exited`             *)
(* (process.exit was called), `listening` (the HTTP server accepts         *)
(* connections) and `msgHandlers` (the requests of the route suspended at  *)
(* an await); `msgLast` observes what the latest step of that route did.   *)
(*                                                                         *)
(* Strings the code inspects are sequences of their parts: a URL is the    *)
(* sequence of its origin, path segments and (possibly) query, so that     *)
(* startsWith is the prefix test on sequences.                             *)
(***************************************************************************)
EXTENDS Integers, Sequences, FiniteSets, TLC

VARIABLES variant, fetchLoaded, clock, webhooks, webhookCache, lastAttempts,
          handlers, last, answer, windowStart, validatedOk,
          login, exited, listening, msgHandlers, msgLast

\* the bot session, the process and the route GET /messages/:channelId
botVars == <<login, exited, listening, msgHandlers, msgLast>>

\* the webhook registry, its routes and their observers
registryVars == <<variant, fetchLoaded, clock, webhooks, webhookCache, lastAttempts,
                  handlers, last, answer, windowStart, validatedOk>>

vars == <<variant, fetchLoaded, clock, webhooks, webhookCache, lastAttempts,
          handlers, last, answer, windowStart, validatedOk,
          login, exited, listening, msgHandlers, msgLast>>

(***************************************************************************)
(* Bounds of the model.                                                    *)
(***************************************************************************)
MaxClock == 5000           \* Date.now() runs from 0 to MaxClock (ms) under Spec
MaxClockRetry == 10000     \* ... and from 0 to MaxClockRetry under SpecRetry
MaxHandlers == 2           \* requests suspended at an await at one time

(***************************************************************************)
(* Program constants.                                                      *)
(***************************************************************************)
cooldownMs == 5000
maxRetryAfter == 10000

\* Time advances in steps of half a cooldown window.
TickMs == cooldownMs \div 2

WebhookPrefix == <<"https://discord.com", "api", "webhooks">>
DefaultAvatar == <<"https://cdn.discordapp.com", "embed", "avatars", "0.png">>
DefaultName == "Unnamed Webhook"

(***************************************************************************)
(* Inputs.                                                                 *)
(***************************************************************************)
UrlA == WebhookPrefix \o <<"1", "tokA">>
\* the same webhook, addressed with a query string
UrlA2 == WebhookPrefix \o <<"1", "tokA", "?wait=true">>
UrlB == WebhookPrefix \o <<"2", "tokB">>

GoodUrls == {UrlA, UrlA2}
BadUrls == { <<>>,
             <<"https://discord.com", "api">>,
             <<"http://discord.com", "api", "webhooks", "1", "tokA">> }

\* req.body of POST /add-webhook: url may be absent
AddBodies(urls) == {[present |-> FALSE, url |-> <<>>]}
                   \cup {[present |-> TRUE, url |-> u] : u \in urls}

\* webhookId of a request: "" stands for a missing or empty field
WebhookIds == {"", "1", "9"}
Contents == {"", "hi"}
FileCounts == {0, 1}

\* retry-after header of a 429 response: absent, not a number, or a decimal
\* number of seconds given by its integer part and whether a fraction follows
NoHeader == [kind |-> "absent", whole |-> 0, frac |-> FALSE]
ShortHeaders == { NoHeader,
                  [kind |-> "num", whole |-> 2, frac |-> TRUE],
                  [kind |-> "num", whole |-> 5, frac |-> FALSE],
                  [kind |-> "num", whole |-> 11, frac |-> FALSE] }
RetryHeaders == ShortHeaders
                \cup { [kind |-> "text", whole |-> 0, frac |-> FALSE],
                       [kind |-> "num", whole |-> 0, frac |-> FALSE],
                       [kind |-> "num", whole |-> 10, frac |-> FALSE] }

\* The webhooks the remote platform knows, by the id in the URL: the JSON
\* body it returns.  "" stands for null.
RemoteBody(url) ==
  IF url[4] = "1"
    THEN [id |-> "1", name |-> "Bot", avatar |-> "av1", channel_id |-> "c1"]
    ELSE [id |-> "2", name |-> "", avatar |-> "", channel_id |-> "c2"]

\* What the awaited fetch can produce: a thrown error (network, timeout,
\* unparsable body) or a response with a status
GetOutcomes(headers) ==
  {[kind |-> "error", status |-> 0, header |-> NoHeader],
   [kind |-> "response", status |-> 200, header |-> NoHeader],
   [kind |-> "response", status |-> 404, header |-> NoHeader]}
  \cup {[kind |-> "response", status |-> 429, header |-> h] : h \in headers}

PostOutcomes == {[kind |-> "error", status |-> 0],
                 [kind |-> "response", status |-> 204],
                 [kind |-> "response", status |-> 404]}

\* no awaited call settled in the step
NoAnswer == [kind |-> "none", status |-> 0, header |-> NoHeader]

(***************************************************************************)
(* Helpers.                                                                *)
(***************************************************************************)
Min(S) == CHOOSE x \in S : \A y \in S : x <= y

\* String.prototype.startsWith
StartsWith(s, p) == Len(s) >= Len(p) /\ SubSeq(s, 1, Len(p)) = p

\* ResponseOk with the upper end of the 2xx range forgotten
ResponseOkNoUpperEnd(status) == status >= 200

\* Response.ok
ResponseOk(status) == status >= 200 /\ status <= 299

\* MapSet that keeps the value of a key the map already has
MapSetKeepsOld(m, k, v) == [x \in DOMAIN m \cup {k} |-> IF x \in DOMAIN m THEN m[x] ELSE v]

\* Map.prototype.set
MapSet(m, k, v) == [x \in DOMAIN m \cup {k} |-> IF x = k THEN v ELSE m[x]]

\* Map.prototype.has
MapHas(m, k) == k \in DOMAIN m

EmptyMap == [x \in {} |-> 0]

\* slept: the delay of the sleep the request is in (0 when it is in none)
Idle == [pc |-> "idle", url |-> <<>>, calls |-> 0, wakeAt |-> 0, slept |-> 0]
Fetching(url, n) == [pc |-> "fetch", url |-> url, calls |-> n, wakeAt |-> 0, slept |-> 0]
Sleeping(url, n, now, retryAfter) ==
  [pc |-> "sleep", url |-> url, calls |-> n, wakeAt |-> now + retryAfter,
   slept |-> retryAfter]
Posting(url) == [pc |-> "post", url |-> url, calls |-> 0, wakeAt |-> 0, slept |-> 0]

Handlers == 1..MaxHandlers

\* the handler record a request that suspends takes; 0 when all are in use
FreeHandler ==
  IF \E h \in Handlers : handlers[h].pc = "idle"
    THEN Min({h \in Handlers : handlers[h].pc = "idle"})
    ELSE 0

(***************************************************************************)
(* What a step did.  ev: "arrive" (a request arrived), "settle" (an        *)
(* awaited fetch settled), "wake" (a sleep ended), "none"; op: the route;  *)
(* url, id, empty: what the request named, and whether it carried neither  *)
(* content nor file; status, err: the response written (status 0: none     *)
(* yet, the handler is suspended); validated: what validateWebhook         *)
(* returned, <<>> when it threw or did not return; webhook: the webhook in *)
(* the response body; calls: the remote validation calls the request has   *)
(* issued; remote: this step called fetch.                                 *)
(***************************************************************************)
NoEvent == [ev |-> "none", op |-> "", url |-> <<>>, id |-> "", empty |-> FALSE,
            status |-> 0, err |-> "", validated |-> <<>>, webhook |-> <<>>,
            calls |-> 0, remote |-> FALSE]

\* AddResult with the catch of the Register handler answering 400
AddResultCatch400(status, err, validated, webhook) ==
  [status |-> IF status = 429 THEN 400 ELSE status, err |-> err,
   validated |-> validated, webhook |-> webhook, remote |-> FALSE]

\* res.status(status).json(...) of the Register handler
AddResult(status, err, validated, webhook) ==
  [status |-> status, err |-> err, validated |-> validated, webhook |-> webhook,
   remote |-> FALSE]

\* the handler is suspended at await fetch(...)
Suspended == [status |-> 0, err |-> "", validated |-> <<>>, webhook |-> <<>>,
              remote |-> TRUE]

AddEvent(ev, url, n, r) ==
  [ev |-> ev, op |-> "add-webhook", url |-> url, id |-> "", empty |-> FALSE,
   status |-> r.status, err |-> r.err, validated |-> r.validated,
   webhook |-> r.webhook, calls |-> n, remote |-> r.remote]

IdEvent(ev, op, id, url, empty, status, err, remote) ==
  [ev |-> ev, op |-> op, url |-> url, id |-> id, empty |-> empty,
   status |-> status, err |-> err, validated |-> <<>>, webhook |-> <<>>,
   calls |-> 0, remote |-> remote]

(***************************************************************************)
(* validateWebhook and POST /add-webhook.                                  *)
(***************************************************************************)
\* CooldownActive with the window taken in seconds where the clock is in ms
CooldownInSeconds(la, url, now) == MapHas(la, url) /\ now - la[url] < cooldownMs \div 1000

\* CooldownActive with the comparison the wrong way round
CooldownInverted(la, url, now) == MapHas(la, url) /\ now - la[url] > cooldownMs

\* CooldownActive with <= for <
CooldownInclusive(la, url, now) == MapHas(la, url) /\ now - la[url] <= cooldownMs

\* lastAttempts.has(url) && now - lastAttempts.get(url) < cooldownMs
CooldownActive(la, url, now) == MapHas(la, url) /\ now - la[url] < cooldownMs

\* the Endpoint built from the remote body
MakeWebhook(data, url) ==
  [id |-> data.id,
   name |-> IF data.name # "" THEN data.name ELSE DefaultName,
   avatar |-> IF data.avatar # ""
                THEN <<"https://cdn.discordapp.com", "avatars", data.id, data.avatar>>
                ELSE DefaultAvatar,
   channelId |-> data.channel_id,
   url |-> url]

\* UrlRegistered looking at the first webhook only
UrlRegisteredFirstOnly(ws, url) == Len(ws) > 0 /\ ws[1].url = url

\* webhooks.some(w => w.url === url)
UrlRegistered(ws, url) == \E i \in 1..Len(ws) : ws[i].url = url

\* parseInt(header): NaN for an absent or non-numeric header, else the
\* integer part
ParseInt(h) == IF h.kind = "num" THEN [nan |-> FALSE, val |-> h.whole]
                                 ELSE [nan |-> TRUE, val |-> 0]

\* parseInt(response.headers.get('retry-after')) * 1000 || 0
RetryAfterMs(h) ==
  LET p == ParseInt(h)
  IN IF p.nan \/ p.val * 1000 = 0 THEN 0 ELSE p.val * 1000

\* Cached looking the URL up with a trailing slash added
CachedWrongKey(cache, url) == MapHas(cache, Append(url, "/"))

\* webhookCache.has(url)
Cached(cache, url) == MapHas(cache, url)

\* TooLong with the cap taken for seconds and converted once more
TooLongUnits(retryAfter) == retryAfter > maxRetryAfter * 1000

\* the rate-limit delay is one the capped-wait revision refuses to wait for
TooLong(retryAfter) == retryAfter > maxRetryAfter

\* the handler h, if it was suspended, is over
Release(h) == IF h \in Handlers THEN [handlers EXCEPT ![h] = Idle] ELSE handlers

\* The handler after validateWebhook returned `webhook`: the duplicate check
\* and the push, with no await in between.
AddValidated(h, ev, webhook, url, n) ==
  IF UrlRegistered(webhooks, url)
    THEN /\ webhooks' = webhooks
         /\ handlers' = Release(h)
         /\ last' = AddEvent(ev, url, n,
                       AddResult(400, "DuplicateEndpoint", <<webhook>>, <<>>))
    ELSE /\ webhooks' = Append(webhooks, webhook)
         /\ handlers' = Release(h)
         /\ last' = AddEvent(ev, url, n, AddResult(200, "", <<webhook>>, <<webhook>>))

\* ValidateWebhook with the time recorded before the cooldown check, so
\* that a rejected attempt refreshes it
ValidateWebhookRefreshes(h, ev, url, n) ==
  /\ lastAttempts' = MapSet(lastAttempts, url, clock)
  /\ UNCHANGED webhookCache
  /\ IF CooldownActive(lastAttempts, url, clock)
       THEN /\ handlers' = Release(h)
            /\ last' = AddEvent(ev, url, n, AddResult(429, "TooManyAttempts", <<>>, <<>>))
            /\ UNCHANGED webhooks
     ELSE IF Cached(webhookCache, url)
       THEN AddValidated(h, ev, webhookCache[url], url, n)
     ELSE IF ~fetchLoaded
       THEN /\ handlers' = Release(h)
            /\ last' = AddEvent(ev, url, n, AddResult(429, "FetchNotLoaded", <<>>, <<>>))
            /\ UNCHANGED webhooks
       ELSE /\ h \in Handlers
            /\ handlers' = [handlers EXCEPT ![h] = Fetching(url, n + 1)]
            /\ last' = AddEvent(ev, url, n + 1, Suspended)
            /\ UNCHANGED webhooks

\* ValidateWebhook with the cache looked up before the cooldown check
ValidateWebhookCacheFirst(h, ev, url, n) ==
  IF Cached(webhookCache, url)
    THEN /\ UNCHANGED <<lastAttempts, webhookCache>>
         /\ AddValidated(h, ev, webhookCache[url], url, n)
  ELSE IF CooldownActive(lastAttempts, url, clock)
    THEN /\ handlers' = Release(h)
         /\ last' = AddEvent(ev, url, n, AddResult(429, "TooManyAttempts", <<>>, <<>>))
         /\ UNCHANGED <<lastAttempts, webhookCache, webhooks>>
    ELSE /\ lastAttempts' = MapSet(lastAttempts, url, clock)
         /\ UNCHANGED <<webhookCache, webhooks>>
         /\ IF ~fetchLoaded
              THEN /\ handlers' = Release(h)
                   /\ last' = AddEvent(ev, url, n,
                                 AddResult(429, "FetchNotLoaded", <<>>, <<>>))
              ELSE /\ h \in Handlers
                   /\ handlers' = [handlers EXCEPT ![h] = Fetching(url, n + 1)]
                   /\ last' = AddEvent(ev, url, n + 1, Suspended)

\* validateWebhook(url) from its entry to the await of fetch; when it returns
\* or throws before awaiting, the handler's reaction is part of the step.
\* n is the number of remote calls the request has issued before this entry.
ValidateWebhook(h, ev, url, n) ==
  IF CooldownActive(lastAttempts, url, clock)
    THEN /\ handlers' = Release(h)
         /\ last' = AddEvent(ev, url, n, AddResult(429, "TooManyAttempts", <<>>, <<>>))
         /\ UNCHANGED <<lastAttempts, webhookCache, webhooks>>
    ELSE /\ lastAttempts' = MapSet(lastAttempts, url, clock)
         /\ UNCHANGED webhookCache
         /\ IF Cached(webhookCache, url)
              THEN AddValidated(h, ev, webhookCache[url], url, n)
              ELSE IF ~fetchLoaded
                THEN /\ handlers' = Release(h)
                     /\ last' = AddEvent(ev, url, n,
                                   AddResult(429, "FetchNotLoaded", <<>>, <<>>))
                     /\ UNCHANGED webhooks
                ELSE /\ h \in Handlers
                     /\ handlers' = [handlers EXCEPT ![h] = Fetching(url, n + 1)]
                     /\ last' = AddEvent(ev, url, n + 1, Suspended)
                     /\ UNCHANGED webhooks

\* BadFormat without the prefix test
BadFormatMissingOnly(body) == ~body.present \/ body.url = <<>>

\* !url || !url.startsWith('https://discord.com/api/webhooks/')
BadFormat(body) ==
  ~body.present \/ body.url = <<>> \/ ~StartsWith(body.url, WebhookPrefix)

\* POST /add-webhook arrives
AddWebhook(body) ==
  /\ IF BadFormat(body)
       THEN /\ last' = AddEvent("arrive", body.url, 0,
                          AddResult(400, "InvalidFormat", <<>>, <<>>))
            /\ UNCHANGED <<webhooks, webhookCache, lastAttempts, handlers>>
       ELSE ValidateWebhook(FreeHandler, "arrive", body.url, 0)
  /\ windowStart' = IF last'.err \in {"InvalidFormat", "TooManyAttempts"}
                      THEN windowStart
                      ELSE MapSet(windowStart, body.url, clock)
  /\ answer' = NoAnswer
  /\ UNCHANGED <<variant, fetchLoaded, clock, validatedOk>>
  /\ UNCHANGED botVars

\* the awaited fetch (and response.json()) of validateWebhook settles
FetchReturn(h, out) ==
  /\ handlers[h].pc = "fetch"
  /\ LET url == handlers[h].url
         n == handlers[h].calls
         fail(err) == /\ handlers' = Release(h)
                      /\ last' = AddEvent("settle", url, n, AddResult(429, err, <<>>, <<>>))
                      /\ UNCHANGED <<webhooks, webhookCache>>
     IN IF out.kind = "error"
          THEN fail("CallFailed")
        ELSE IF out.status = 429
          THEN IF variant = "failfast" \/ TooLong(RetryAfterMs(out.header))
            THEN fail("RateLimited")
            ELSE /\ handlers' = [handlers EXCEPT
                        ![h] = Sleeping(url, n, clock, RetryAfterMs(out.header))]
                 /\ last' = [AddEvent("settle", url, n, Suspended) EXCEPT
                               !.remote = FALSE]
                 /\ UNCHANGED <<webhooks, webhookCache>>
        ELSE IF ~ResponseOk(out.status)
          THEN fail("InvalidWebhook")
        ELSE LET webhook == MakeWebhook(RemoteBody(url), url)
             IN /\ webhookCache' = MapSet(webhookCache, url, webhook)
                /\ AddValidated(h, "settle", webhook, url, n)
  /\ validatedOk' = IF out.kind = "response" /\ out.status \in 200..299
                      THEN validatedOk \cup {handlers[h].url}
                      ELSE validatedOk
  /\ answer' = out
  /\ UNCHANGED <<variant, fetchLoaded, clock, lastAttempts, windowStart>>
  /\ UNCHANGED botVars

\* Wake with a retry that goes to the remote call without the cooldown check
WakeSkipsCooldown(h) ==
  /\ handlers[h].pc = "sleep"
  /\ clock >= handlers[h].wakeAt
  /\ handlers' = [handlers EXCEPT
                    ![h] = Fetching(handlers[h].url, handlers[h].calls + 1)]
  /\ last' = AddEvent("wake", handlers[h].url, handlers[h].calls + 1, Suspended)
  /\ answer' = NoAnswer
  /\ UNCHANGED <<variant, fetchLoaded, clock, webhooks, webhookCache, lastAttempts,
                 windowStart, validatedOk>>
  /\ UNCHANGED botVars

\* sleep(retryAfter) is over: return await validateWebhook(url)
Wake(h) ==
  /\ handlers[h].pc = "sleep"
  /\ clock >= handlers[h].wakeAt
  /\ ValidateWebhook(h, "wake", handlers[h].url, handlers[h].calls)
  /\ answer' = NoAnswer
  /\ windowStart' = IF last'.err = "TooManyAttempts"
                      THEN windowStart
                      ELSE MapSet(windowStart, handlers[h].url, clock)
  /\ UNCHANGED <<variant, fetchLoaded, clock, validatedOk>>
  /\ UNCHANGED botVars

(***************************************************************************)
(* DELETE /webhook/:id and POST /send-message.                             *)
(***************************************************************************)
\* FindIndex with = for ===: the callback is truthy for the first webhook
FindIndexAssign(ws, id) == IF Len(ws) > 0 THEN 1 ELSE -1

\* webhooks.findIndex(w => w.id === id), 1-based; -1 when there is none
FindIndex(ws, id) ==
  IF \E i \in 1..Len(ws) : ws[i].id = id
    THEN Min({i \in 1..Len(ws) : ws[i].id = id})
    ELSE -1

\* webhooks.splice(index, 1)
Splice(ws, i) == SubSeq(ws, 1, i - 1) \o SubSeq(ws, i + 1, Len(ws))

\* DeleteWebhook that also drops the success-cache entry of the removed url
DeleteWebhookEvicts(id) ==
  /\ LET index == FindIndex(webhooks, id)
     IN IF index = -1
          THEN /\ last' = IdEvent("arrive", "delete", id, <<>>, FALSE, 404, "NotFound", FALSE)
               /\ UNCHANGED <<webhooks, webhookCache>>
          ELSE /\ webhooks' = Splice(webhooks, index)
               /\ webhookCache' = [u \in DOMAIN webhookCache \ {webhooks[index].url}
                                     |-> webhookCache[u]]
               /\ last' = IdEvent("arrive", "delete", id, <<>>, FALSE, 200, "", FALSE)
  /\ answer' = NoAnswer
  /\ UNCHANGED <<variant, fetchLoaded, clock, lastAttempts, handlers,
                 windowStart, validatedOk>>
  /\ UNCHANGED botVars

\* DELETE /webhook/:id
DeleteWebhook(id) ==
  /\ LET index == FindIndex(webhooks, id)
     IN IF index = -1
          THEN /\ last' = IdEvent("arrive", "delete", id, <<>>, FALSE, 404, "NotFound", FALSE)
               /\ UNCHANGED webhooks
          ELSE /\ webhooks' = Splice(webhooks, index)
               /\ last' = IdEvent("arrive", "delete", id, <<>>, FALSE, 200, "", FALSE)
  /\ answer' = NoAnswer
  /\ UNCHANGED <<variant, fetchLoaded, clock, webhookCache, lastAttempts, handlers,
                 windowStart, validatedOk>>
  /\ UNCHANGED botVars

\* SendCheck with a ! lost in the test for an empty message
SendCheckLostNot(ws, id, content, nfiles) ==
  IF id = "" THEN [err |-> "MissingId", status |-> 400]
  ELSE IF (\A i \in 1..Len(ws) : ws[i].id # id) THEN [err |-> "NotFound", status |-> 404]
  ELSE IF content = "" /\ nfiles # 0 THEN [err |-> "EmptyMessage", status |-> 400]
  ELSE [err |-> "", status |-> 0]

\* the checks of POST /send-message before anything is sent: the error kind
\* and status, or "" and 0 when the request passes them
SendCheck(ws, id, content, nfiles) ==
  IF id = "" THEN [err |-> "MissingId", status |-> 400]
  ELSE IF FindIndex(ws, id) = -1 THEN [err |-> "NotFound", status |-> 404]
  ELSE IF content = "" /\ nfiles = 0 THEN [err |-> "EmptyMessage", status |-> 400]
  ELSE [err |-> "", status |-> 0]

\* POST /send-message arrives
SendMessage(id, content, nfiles) ==
  /\ LET chk == SendCheck(webhooks, id, content, nfiles)
         empty == content = "" /\ nfiles = 0
     IN IF chk.err # ""
          THEN /\ last' = IdEvent("arrive", "send-message", id, <<>>, empty,
                             chk.status, chk.err, FALSE)
               /\ UNCHANGED handlers
        ELSE IF ~fetchLoaded
          THEN /\ last' = IdEvent("arrive", "send-message", id, <<>>, empty,
                             500, "RelayFailed", FALSE)
               /\ UNCHANGED handlers
        ELSE LET url == webhooks[FindIndex(webhooks, id)].url
             IN /\ FreeHandler \in Handlers
                /\ handlers' = [handlers EXCEPT ![FreeHandler] = Posting(url)]
                /\ last' = IdEvent("arrive", "send-message", id, url, empty, 0, "", TRUE)
  /\ answer' = NoAnswer
  /\ UNCHANGED <<variant, fetchLoaded, clock, webhooks, webhookCache, lastAttempts,
                 windowStart, validatedOk>>
  /\ UNCHANGED botVars

\* SendReturn that posts again when the POST did not succeed
SendReturnRetries(h, out) ==
  /\ handlers[h].pc = "post"
  /\ IF out.kind = "response" /\ ResponseOk(out.status)
       THEN /\ handlers' = Release(h)
            /\ last' = IdEvent("settle", "send-message", "", handlers[h].url, FALSE,
                               200, "", FALSE)
       ELSE /\ handlers' = handlers
            /\ last' = IdEvent("settle", "send-message", "", handlers[h].url, FALSE,
                               0, "", TRUE)
  /\ answer' = [kind |-> out.kind, status |-> out.status, header |-> NoHeader]
  /\ UNCHANGED <<variant, fetchLoaded, clock, webhooks, webhookCache, lastAttempts,
                 windowStart, validatedOk>>
  /\ UNCHANGED botVars

\* the awaited POST settles
SendReturn(h, out) ==
  /\ handlers[h].pc = "post"
  /\ handlers' = Release(h)
  /\ last' = IF out.kind = "response" /\ ResponseOk(out.status)
               THEN IdEvent("settle", "send-message", "", handlers[h].url, FALSE,
                            200, "", FALSE)
               ELSE IdEvent("settle", "send-message", "", handlers[h].url, FALSE,
                            500, "RelayFailed", FALSE)
  /\ answer' = [kind |-> out.kind, status |-> out.status, header |-> NoHeader]
  /\ UNCHANGED <<variant, fetchLoaded, clock, webhooks, webhookCache, lastAttempts,
                 windowStart, validatedOk>>
  /\ UNCHANGED botVars

(***************************************************************************)
(* The environment: the dynamic import of node-fetch and the clock.        *)
(***************************************************************************)
\* fetch = (await import('node-fetch')).default
LoadFetch ==
  /\ ~fetchLoaded
  /\ fetchLoaded' = TRUE
  /\ last' = NoEvent
  /\ answer' = NoAnswer
  /\ UNCHANGED <<variant, clock, webhooks, webhookCache, lastAttempts, handlers,
                 windowStart, validatedOk>>
  /\ UNCHANGED botVars

\* a setTimeout of some sleeping handler is due
TimerDue == \E h \in Handlers : handlers[h].pc = "sleep" /\ handlers[h].wakeAt <= clock

\* Date.now() advances; a timer that is due fires before the clock moves on
Tick(max) ==
  /\ ~TimerDue
  /\ clock + TickMs <= max
  /\ clock' = clock + TickMs
  /\ last' = NoEvent
  /\ answer' = NoAnswer
  /\ UNCHANGED <<variant, fetchLoaded, webhooks, webhookCache, lastAttempts, handlers,
                 windowStart, validatedOk>>
  /\ UNCHANGED botVars

(***************************************************************************)
(* The bot session and GET /messages/:channelId.                           *)
(***************************************************************************)
ChannelIds == {"c1", "c9"}

\* the flags the route asks for
Flags == {"ViewChannel", "ReadMessageHistory"}

\* What the awaited client.channels.fetch can produce: a rejection, no
\* channel, or a channel; text: isTextBased(); guild: channel.guild is
\* there (a DM channel has none); perms: the flags among Flags that
\* channel.permissionsFor(me) holds
NoChannel(kind) == [kind |-> kind, text |-> FALSE, guild |-> FALSE, perms |-> {}]
ResolveOutcomes ==
  {NoChannel("throws"), NoChannel("null")}
  \cup {[kind |-> "channel", text |-> FALSE, guild |-> TRUE, perms |-> {}],
        [kind |-> "channel", text |-> TRUE, guild |-> FALSE, perms |-> {}]}
  \cup {[kind |-> "channel", text |-> TRUE, guild |-> TRUE, perms |-> P] :
          P \in SUBSET Flags}

\* What the awaited channel.messages.fetch can produce
HistoryOutcomes == {"throws", "messages"}

MsgIdle == [pc |-> "idle", channel |-> ""]
Resolving(c) == [pc |-> "resolve", channel |-> c]
FetchingHistory(c) == [pc |-> "history", channel |-> c]

FreeMsgHandler ==
  IF \E h \in Handlers : msgHandlers[h].pc = "idle"
    THEN Min({h \in Handlers : msgHandlers[h].pc = "idle"})
    ELSE 0

\* What a step of the route did.  ev: "arrive", "resolved" (the channel
\* resolution settled), "fetched" (the history fetch settled), "none";
\* status, err: the response written (0: none yet); got: what the
\* resolution produced; permChecked: permissions.has was evaluated;
\* historyIssued: channel.messages.fetch was called.
MsgEvent(ev, channel, status, err, got, permChecked, historyIssued) ==
  [ev |-> ev, channel |-> channel, status |-> status, err |-> err, got |-> got,
   permChecked |-> permChecked, historyIssued |-> historyIssued]

NoMsgEvent == MsgEvent("none", "", 0, "", NoChannel("none"), FALSE, FALSE)

\* the HTTP server is bound: the callback of app.listen
Listen ==
  /\ ~listening /\ ~exited
  /\ listening' = TRUE
  /\ msgLast' = NoMsgEvent
  /\ UNCHANGED <<login, exited, msgHandlers>>
  /\ UNCHANGED registryVars

\* the promise of client.login resolves
LoginResolves ==
  /\ login = "pending" /\ ~exited
  /\ login' = "resolved"
  /\ msgLast' = NoMsgEvent
  /\ UNCHANGED <<exited, listening, msgHandlers>>
  /\ UNCHANGED registryVars

\* the promise of client.login rejects: .catch(err => { ...; process.exit(1) })
LoginRejects ==
  /\ login = "pending" /\ ~exited
  /\ login' = "rejected"
  /\ exited' = TRUE
  /\ msgLast' = NoMsgEvent
  /\ UNCHANGED <<listening, msgHandlers>>
  /\ UNCHANGED registryVars

\* GET /messages/:channelId arrives: await client.channels.fetch(...)
GetMessages(channelId) ==
  /\ listening /\ ~exited
  /\ FreeMsgHandler \in Handlers
  /\ msgHandlers' = [msgHandlers EXCEPT ![FreeMsgHandler] = Resolving(channelId)]
  /\ msgLast' = MsgEvent("arrive", channelId, 0, "", NoChannel("none"), FALSE, FALSE)
  /\ UNCHANGED <<login, exited, listening>>
  /\ UNCHANGED registryVars

\* InvalidChannel that tests only whether there is a channel
InvalidChannelNullOnly(out) == out.kind = "null"

\* !channel || !channel.isTextBased()
InvalidChannel(out) == out.kind = "null" \/ ~out.text

\* PermissionsHas satisfied by any one of the flags
PermissionsHasAny(perms, flags) == perms \cap flags # {}

\* permissions.has([...flags])
PermissionsHas(perms, flags) == flags \subseteq perms

\* the awaited channel resolution settles
ChannelResolved(h, out) ==
  /\ ~exited
  /\ msgHandlers[h].pc = "resolve"
  /\ LET c == msgHandlers[h].channel
         respond(status, err, perm) ==
           /\ msgHandlers' = [msgHandlers EXCEPT ![h] = MsgIdle]
           /\ msgLast' = MsgEvent("resolved", c, status, err, out, perm, FALSE)
     IN IF out.kind = "throws"
          THEN respond(500, "FetchFailed", FALSE)
        ELSE IF InvalidChannel(out)
          THEN respond(400, "InvalidChannel", FALSE)
        ELSE IF ~out.guild          \* channel.guild.members throws a TypeError
          THEN respond(500, "FetchFailed", FALSE)
        ELSE IF ~PermissionsHas(out.perms, Flags)
          THEN respond(403, "Forbidden", TRUE)
        ELSE /\ msgHandlers' = [msgHandlers EXCEPT ![h] = FetchingHistory(c)]
             /\ msgLast' = MsgEvent("resolved", c, 0, "", out, TRUE, TRUE)
  /\ UNCHANGED <<login, exited, listening>>
  /\ UNCHANGED registryVars

\* the awaited history fetch settles
HistoryReturn(h, out) ==
  /\ ~exited
  /\ msgHandlers[h].pc = "history"
  /\ msgHandlers' = [msgHandlers EXCEPT ![h] = MsgIdle]
  /\ msgLast' = IF out = "throws"
                  THEN MsgEvent("fetched", msgHandlers[h].channel, 500, "FetchFailed",
                                NoChannel("none"), FALSE, FALSE)
                  ELSE MsgEvent("fetched", msgHandlers[h].channel, 200, "",
                                NoChannel("none"), FALSE, FALSE)
  /\ UNCHANGED <<login, exited, listening>>
  /\ UNCHANGED registryVars

Init ==
  /\ variant \in {"failfast", "capped"}
  /\ fetchLoaded = FALSE
  /\ clock = 0
  /\ webhooks = <<>>
  /\ webhookCache = EmptyMap
  /\ lastAttempts = EmptyMap
  /\ handlers = [h \in Handlers |-> Idle]
  /\ last = NoEvent
  /\ answer = NoAnswer
  /\ windowStart = EmptyMap
  /\ validatedOk = {}
  /\ login = "pending"
  /\ exited = FALSE
  /\ listening = FALSE
  /\ msgHandlers = [h \in Handlers |-> MsgIdle]
  /\ msgLast = NoMsgEvent

Next ==
  \/ \E body \in AddBodies(GoodUrls \cup BadUrls) : AddWebhook(body)
  \/ \E h \in Handlers, out \in GetOutcomes(ShortHeaders) : FetchReturn(h, out)
  \/ \E h \in Handlers : Wake(h)
  \/ \E id \in WebhookIds : DeleteWebhook(id)
  \/ \E id \in WebhookIds, c \in Contents, n \in FileCounts : SendMessage(id, c, n)
  \/ \E h \in Handlers, out \in PostOutcomes : SendReturn(h, out)
  \/ LoadFetch
  \/ Tick(MaxClock)

\* Both revisions, every route.
Spec == Init /\ [][Next]_vars

\* The capped-wait revision over a longer time: the requests for one URL.
InitRetry == Init /\ variant = "capped"

NextRetry ==
  \/ \E body \in AddBodies({UrlB}) : AddWebhook(body)
  \/ \E h \in Handlers, out \in GetOutcomes(RetryHeaders) : FetchReturn(h, out)
  \/ \E h \in Handlers : Wake(h)
  \/ \E id \in WebhookIds : DeleteWebhook(id)
  \/ LoadFetch
  \/ Tick(MaxClockRetry)

SpecRetry == InitRetry /\ [][NextRetry]_vars

\* The start of the process and the route that reads a channel.
NextBot ==
  \/ Listen
  \/ LoginResolves
  \/ LoginRejects
  \/ \E c \in ChannelIds : GetMessages(c)
  \/ \E h \in Handlers, out \in ResolveOutcomes : ChannelResolved(h, out)
  \/ \E h \in Handlers, out \in HistoryOutcomes : HistoryReturn(h, out)

SpecBot == Init /\ [][NextBot]_vars

(***************************************************************************)
(* Properties.                                                             *)
(***************************************************************************)
\* some Endpoint of the registry has this url / this id
InRegistry(url) == \E i \in 1..Len(webhooks) : webhooks[i].url = url
IdRegistered(id) == \E i \in 1..Len(webhooks) : webhooks[i].id = id

\* the step is the arrival of a request on the route op
Arrives(op) == last'.ev = "arrive" /\ last'.op = op

\* no attempt for the url was recorded less than a cooldown window ago
CooldownExpired(url) ==
  ~(url \in DOMAIN lastAttempts /\ clock - lastAttempts[url] < cooldownMs)

RegisterFailures == {"InvalidFormat", "TooManyAttempts", "RateLimited",
                     "InvalidWebhook", "CallFailed", "FetchNotLoaded"}

\* C1: after every step no two Endpoints of the registry have the same url,
\* and a Register whose url is in the registry when validateWebhook returns
\* is answered DuplicateEndpoint and appends nothing.
C1_UniqueUrl ==
  [][ /\ \A i, j \in 1..Len(webhooks') :
           webhooks'[i].url = webhooks'[j].url => i = j
      /\ (last'.op = "add-webhook" /\ last'.validated # <<>> /\ InRegistry(last'.url))
           => (last'.status = 400 /\ last'.err = "DuplicateEndpoint"
               /\ webhooks' = webhooks) ]_vars

\* Two requests for one URL were both validated by the remote platform; the
\* second to return found the URL registered.
C1_Witness ==
  /\ last.ev = "settle" /\ last.err = "DuplicateEndpoint" /\ last.calls = 1
  /\ InRegistry(last.url)

\* C2: a Register call for a URL made less than 5 s after the call that
\* opened the URL's cooldown window is answered TooManyAttempts, and issues
\* no remote validation call.
C2_SecondWithinWindow ==
  [][ (Arrives("add-webhook") /\ last'.url \in DOMAIN windowStart
       /\ clock - windowStart[last'.url] < 5000)
        => (last'.status = 429 /\ last'.err = "TooManyAttempts"
            /\ ~last'.remote /\ last'.calls = 0 /\ handlers' = handlers) ]_vars

\* A call rejected 2.5 s after the one that opened the window.
C2_Witness ==
  /\ last.ev = "arrive" /\ last.op = "add-webhook" /\ last.err = "TooManyAttempts"
  /\ last.url \in DOMAIN windowStart /\ clock - windowStart[last.url] = 2500

\* C3 as stated: right after a Register of a URL succeeded, a second Register
\* of the same URL is answered DuplicateEndpoint.
C3_SecondIsDuplicate ==
  [][ (last.op = "add-webhook" /\ last.status = 200
       /\ Arrives("add-webhook") /\ last'.url = last.url)
        => last'.err = "DuplicateEndpoint" ]_vars

\* C3, amended: right after a Register of a URL succeeded, a second Register
\* of the same URL is answered TooManyAttempts when it arrives less than 5 s
\* after the latest validation attempt for the URL, and DuplicateEndpoint
\* otherwise (the validation took 5 s or more); it calls nothing and leaves
\* the registry as it is.
C3_SecondIsTooManyAttempts ==
  [][ (last.op = "add-webhook" /\ last.status = 200
       /\ Arrives("add-webhook") /\ last'.url = last.url)
        => (/\ ~last'.remote /\ webhooks' = webhooks
            /\ IF CooldownExpired(last'.url)
                 THEN last'.status = 400 /\ last'.err = "DuplicateEndpoint"
                 ELSE last'.status = 429 /\ last'.err = "TooManyAttempts") ]_vars

\* At time 0 a URL is in the registry (so its Register succeeded at time 0,
\* after a remote validation) and a further Register of it has been rejected.
C3_Witness ==
  /\ clock = 0 /\ last.ev = "arrive" /\ last.op = "add-webhook"
  /\ last.err = "TooManyAttempts" /\ InRegistry(last.url)
  /\ last.url \in validatedOk

\* C4: a Register whose url is missing or does not start with the webhook
\* prefix is answered InvalidFormat, calls nothing, and leaves the registry,
\* the success cache and the cooldown map unchanged.
C4_InvalidFormat ==
  [][ (Arrives("add-webhook")
       /\ (Len(last'.url) < 3 \/ SubSeq(last'.url, 1, 3) # WebhookPrefix))
        => (last'.status = 400 /\ last'.err = "InvalidFormat"
            /\ ~last'.remote /\ last'.calls = 0
            /\ UNCHANGED <<webhooks, webhookCache, lastAttempts, handlers>>) ]_vars

\* A URL that is a proper prefix of the webhook prefix was rejected while the
\* registry held an Endpoint.
C4_Witness ==
  /\ last.op = "add-webhook" /\ last.err = "InvalidFormat"
  /\ last.url = <<"https://discord.com", "api">>
  /\ Len(webhooks) > 0

\* C5: once the remote platform has validated a URL, a Register of it made
\* when no cooldown is running gets the cached Endpoint from validateWebhook
\* and calls nothing.
C5_CachedWithoutRemoteCall ==
  [][ (Arrives("add-webhook") /\ last'.url \in validatedOk
       /\ CooldownExpired(last'.url))
        => (/\ last'.url \in DOMAIN webhookCache
            /\ last'.validated = <<webhookCache[last'.url]>>
            /\ ~last'.remote /\ last'.calls = 0
            /\ handlers' = handlers /\ webhookCache' = webhookCache) ]_vars

\* A Register answered from the cache, a cooldown window after the first.
C5_Witness ==
  /\ last.ev = "arrive" /\ last.op = "add-webhook" /\ last.validated # <<>>
  /\ last.calls = 0 /\ last.url \in validatedOk /\ clock >= cooldownMs

\* C6: one Register request issues at most two remote validation calls.
C6_AtMostTwoCalls ==
  /\ \A h \in Handlers : handlers[h].calls <= 2
  /\ last.calls <= 2

\* C7: after every step each Endpoint of the registry is the success-cache
\* entry of its url, a url the remote platform has validated; and a Register
\* that ends in a failure of the format check or of the validation adds
\* nothing to the registry.
C7_OnlyValidated ==
  [][ /\ \A i \in 1..Len(webhooks') :
           /\ webhooks'[i].url \in validatedOk'
           /\ webhooks'[i].url \in DOMAIN webhookCache'
           /\ webhookCache'[webhooks'[i].url] = webhooks'[i]
      /\ (last'.op = "add-webhook" /\ last'.err \in RegisterFailures)
           => webhooks' = webhooks ]_vars

\* The remote platform refused a URL while another was registered.
C7_Witness ==
  /\ last.op = "add-webhook" /\ last.err = "InvalidWebhook"
  /\ Len(webhooks) = 1 /\ ~InRegistry(last.url)

\* C8: a Delete of an id that is not in the registry is answered NotFound and
\* leaves the registry unchanged; after a Delete of an id that is in it, no
\* Endpoint of the registry has that id.
C8_DeleteRemovesId ==
  [][ Arrives("delete")
        => IF IdRegistered(last'.id)
             THEN last'.status = 200 /\ ~(\E i \in 1..Len(webhooks') :
                                            webhooks'[i].id = last'.id)
             ELSE last'.status = 404 /\ last'.err = "NotFound"
                  /\ webhooks' = webhooks ]_vars

\* C9 as stated: a Send with neither content nor file, to any identifier,
\* is answered EmptyMessage and calls nothing.
C9_EmptyAlwaysEmptyMessage ==
  [][ (Arrives("send-message") /\ last'.id # "" /\ last'.empty)
        => (last'.err = "EmptyMessage" /\ ~last'.remote) ]_vars

\* C9, amended: a Send with neither content nor file is answered
\* EmptyMessage when the identifier is in the registry and NotFound when it
\* is not, and calls nothing in both cases.
C9_EmptyAfterLookup ==
  [][ (Arrives("send-message") /\ last'.id # "" /\ last'.empty)
        => (/\ ~last'.remote /\ handlers' = handlers
            /\ IF IdRegistered(last'.id)
                 THEN last'.status = 400 /\ last'.err = "EmptyMessage"
                 ELSE last'.status = 404 /\ last'.err = "NotFound") ]_vars

\* An empty Send to a registered identifier was refused.
C9_Witness ==
  /\ last.op = "send-message" /\ last.empty /\ last.err = "EmptyMessage"
  /\ IdRegistered(last.id) /\ fetchLoaded

\* C10: a Send to an identifier that is not in the registry is answered
\* NotFound, calls nothing and changes no state.
C10_SendUnknownId ==
  [][ (Arrives("send-message") /\ last'.id # "" /\ ~IdRegistered(last'.id))
        => (last'.status = 404 /\ last'.err = "NotFound" /\ ~last'.remote
            /\ UNCHANGED <<webhooks, webhookCache, lastAttempts, handlers>>) ]_vars

\* A Send with content to an unknown identifier while another is registered,
\* and one to an identifier that was registered and has been deleted.
C10_Witness ==
  /\ last.op = "send-message" /\ last.err = "NotFound" /\ ~last.empty
  /\ fetchLoaded
  /\ \/ last.id = "9" /\ Len(webhooks) > 0
     \/ last.id = "1" /\ "1" \in {webhookCache[u].id : u \in DOMAIN webhookCache}

\* the urls the registry stores for the id
UrlsOf(id) == {webhooks[i].url : i \in {j \in 1..Len(webhooks) : webhooks[j].id = id}}

\* C11: a Send with content or a file to an identifier of the registry posts
\* once, to a url the registry stores for the identifier, and suspends; when
\* the POST settles the request is answered 200 if the remote status is a
\* success status and 500 RelayFailed otherwise, and nothing is posted again;
\* neither step changes the registry, the success cache or the cooldown map.
C11_SendRelaysOnce ==
  [][ /\ (Arrives("send-message") /\ IdRegistered(last'.id) /\ ~last'.empty)
           => (/\ last'.remote /\ last'.status = 0
               /\ last'.url \in UrlsOf(last'.id)
               /\ \E h \in Handlers :
                    /\ handlers[h].pc = "idle"
                    /\ handlers' = [handlers EXCEPT ![h] = Posting(last'.url)]
               /\ UNCHANGED <<webhooks, webhookCache, lastAttempts>>)
      /\ (last'.ev = "settle" /\ last'.op = "send-message")
           => (/\ ~last'.remote
               /\ \E h \in Handlers :
                    /\ handlers[h] = Posting(last'.url)
                    /\ handlers' = [handlers EXCEPT ![h] = Idle]
               /\ IF answer'.kind = "response" /\ answer'.status \in 200..299
                    THEN last'.status = 200 /\ last'.err = ""
                    ELSE last'.status = 500 /\ last'.err = "RelayFailed"
               /\ UNCHANGED <<webhooks, webhookCache, lastAttempts>>) ]_vars

\* The remote platform refused the POST of a Send to a registered url, and
\* the request was answered RelayFailed.
C11_Witness ==
  /\ last.ev = "settle" /\ last.op = "send-message" /\ last.err = "RelayFailed"
  /\ answer.kind = "response" /\ answer.status = 404
  /\ InRegistry(last.url) /\ \A h \in Handlers : handlers[h].pc # "post"

\* the url carries the webhook prefix
WellFormed(url) == Len(url) >= 3 /\ SubSeq(url, 1, 3) = WebhookPrefix

\* the map m with key k set to v and nothing else changed
SetIn(m, mNew, k, v) ==
  /\ DOMAIN mNew = DOMAIN m \cup {k}
  /\ mNew[k] = v
  /\ \A x \in DOMAIN m \ {k} : mNew[x] = m[x]

\* C12 as stated: every Register with a well-formed url records the time of
\* the call in the cooldown map for the url.
C12_EveryAttemptRecorded ==
  [][ (Arrives("add-webhook") /\ WellFormed(last'.url))
        => (last'.url \in DOMAIN lastAttempts'
            /\ lastAttempts'[last'.url] = clock) ]_vars

\* C12, amended: a validation attempt (a Register with a well-formed url, or
\* the retry after a sleep) records its time in the cooldown map for the url
\* when no cooldown is running for the url, whatever follows; an attempt
\* rejected by the cooldown check, a Register with a malformed url and every
\* other step leave the cooldown map as it is, so a later failure does not
\* take the time back.  The success cache changes only when a remote
\* validation call settles with a success status, and then for that url only.
C12_RecordedUnlessRejected ==
  [][ /\ IF /\ last'.op = "add-webhook" /\ last'.ev \in {"arrive", "wake"}
            /\ WellFormed(last'.url) /\ CooldownExpired(last'.url)
           THEN SetIn(lastAttempts, lastAttempts', last'.url, clock)
           ELSE lastAttempts' = lastAttempts
      /\ webhookCache' # webhookCache
           => (/\ last'.ev = "settle" /\ last'.op = "add-webhook"
               /\ answer'.kind = "response" /\ answer'.status \in 200..299
               /\ \E w \in {webhookCache'[last'.url]} :
                    w.url = last'.url /\ SetIn(webhookCache, webhookCache', last'.url, w)) ]_vars

\* A remote validation call failed: the time of the attempt stays in the
\* cooldown map and the success cache has no entry for the url.
C12_Witness ==
  /\ last.ev = "settle" /\ last.op = "add-webhook" /\ last.err = "CallFailed"
  /\ last.url \in DOMAIN lastAttempts /\ last.url \notin DOMAIN webhookCache

\* the requests suspended at the remote validation call for the url
InFlight(hs, url) == {h \in Handlers : hs[h].pc = "fetch" /\ hs[h].url = url}

\* C13: nothing joins a Register to a validation of the same url that is in
\* flight: a Register that arrives while another request is suspended at the
\* remote validation call for the same url, when no cooldown is running for
\* the url and the success cache has no entry for it, passes both checks and
\* issues a remote validation call of its own, so that two are in flight.
C13_SecondCallInFlight ==
  [][ (Arrives("add-webhook") /\ InFlight(handlers, last'.url) # {}
       /\ CooldownExpired(last'.url) /\ last'.url \notin DOMAIN webhookCache)
        => (/\ last'.remote /\ last'.calls = 1 /\ last'.status = 0
            /\ Cardinality(InFlight(handlers', last'.url))
                 = Cardinality(InFlight(handlers, last'.url)) + 1) ]_vars

\* Two remote validation calls for one url are in flight, neither request
\* has written the success cache, and the url is not registered.
C13_Witness ==
  /\ last.ev = "arrive" /\ last.op = "add-webhook" /\ last.remote
  /\ Cardinality(InFlight(handlers, last.url)) = 2
  /\ last.url \notin DOMAIN webhookCache /\ ~InRegistry(last.url)

\* the requests suspended at an await
Pending(hs) == {h \in Handlers : hs[h].pc # "idle"}

\* C14: a step of a Register request writes a response with status 400 when
\* the url is malformed or validateWebhook returned and the url is in the
\* registry, with status 429 when the cooldown check rejects the attempt,
\* fetch is not loaded, the remote call fails, or the remote status is not a
\* success status (429 included, unless the capped-wait revision sleeps),
\* and with status 200 and the Endpoint it appended otherwise; the request
\* is suspended exactly when the step wrote no response, and is over as soon
\* as it wrote one.
C14_RegisterStatus ==
  [][ last'.op = "add-webhook"
        => LET url == last'.url
               arrive == last'.ev = "arrive"
               settle == last'.ev = "settle"
               ok == answer'.kind = "response" /\ answer'.status \in 200..299
           IN /\ last'.status \in {0, 200, 400, 429}
              /\ last'.status = 400
                   <=> \/ arrive /\ ~WellFormed(url)
                       \/ last'.validated # <<>> /\ InRegistry(url)
              /\ last'.status = 429
                   <=> \/ ~settle /\ WellFormed(url) /\ ~CooldownExpired(url)
                       \/ ~settle /\ WellFormed(url) /\ CooldownExpired(url)
                            /\ url \notin DOMAIN webhookCache /\ ~fetchLoaded
                       \/ settle /\ ~ok /\ last'.err # ""
              /\ (settle /\ ~ok /\ last'.err = "")
                   => (variant = "capped" /\ answer'.kind = "response"
                       /\ answer'.status = 429 /\ last'.status = 0)
              /\ last'.status = 200
                   => (/\ last'.validated # <<>> /\ ~InRegistry(url)
                       /\ last'.webhook = last'.validated
                       /\ webhooks' = webhooks \o last'.webhook)
              /\ Cardinality(Pending(handlers'))
                   = Cardinality(Pending(handlers))
                     + (IF arrive /\ last'.status = 0 THEN 1 ELSE 0)
                     - (IF ~arrive /\ last'.status # 0 THEN 1 ELSE 0) ]_vars

\* Under the capped-wait revision the remote platform rate-limited a
\* validation with a delay above the cap while an Endpoint was registered,
\* and the Register was answered 429.
C14_Witness ==
  /\ last.op = "add-webhook" /\ last.ev = "settle" /\ last.status = 429
  /\ answer.status = 429 /\ variant = "capped" /\ Len(webhooks) > 0

\* the channel resolution of the step failed, or produced no channel or a
\* channel that is not text-capable
ResolutionFailed == msgLast'.got.kind \in {"throws", "null"}
NotTextCapable == msgLast'.got.kind = "channel" /\ ~msgLast'.got.text
MsgPending(hs) == {h \in Handlers : hs[h].pc # "idle"}

\* C15 as stated: when the resolution fails or the channel is not
\* text-capable the request is answered 404 ChannelNotFound, and neither
\* the permission check nor the history fetch takes place.
C15_ChannelNotFound404 ==
  [][ (msgLast'.ev = "resolved" /\ (ResolutionFailed \/ NotTextCapable))
        => (/\ msgLast'.status = 404 /\ msgLast'.err = "ChannelNotFound"
            /\ ~msgLast'.permChecked /\ ~msgLast'.historyIssued) ]_vars

\* C15, amended: when the resolution throws the request is answered 500
\* FetchFailed; when it produces no channel or a channel that is not
\* text-capable the request is answered 400; in each case the request is
\* over and neither the permission check nor the history fetch takes place.
C15_InvalidChannel400 ==
  [][ (msgLast'.ev = "resolved" /\ (ResolutionFailed \/ NotTextCapable))
        => (/\ IF msgLast'.got.kind = "throws"
                 THEN msgLast'.status = 500 /\ msgLast'.err = "FetchFailed"
                 ELSE msgLast'.status = 400 /\ msgLast'.err = "InvalidChannel"
            /\ ~msgLast'.permChecked /\ ~msgLast'.historyIssued
            /\ Cardinality(MsgPending(msgHandlers'))
                 = Cardinality(MsgPending(msgHandlers)) - 1
            /\ \A h \in Handlers : msgHandlers'[h].pc # "history"
                                     \/ msgHandlers[h].pc = "history") ]_vars

\* A channel that is not text-capable was resolved and the request refused.
C15_Witness ==
  /\ msgLast.ev = "resolved" /\ msgLast.status = 400
  /\ msgLast.got.kind = "channel" /\ ~msgLast.got.text

\* the step suspended a request at the history fetch
HistoryStarted ==
  \E h \in Handlers : msgHandlers'[h].pc = "history" /\ msgHandlers[h].pc # "history"

\* C16: when the channel resolves to a text-capable guild channel on which
\* the bot lacks the view-channel or the read-message-history flag, the
\* request is answered 403 Forbidden and no history fetch is issued; a
\* history fetch is issued only in a step that checked the permissions and
\* found both flags.
C16_ForbiddenBeforeHistory ==
  [][ /\ (/\ msgLast'.ev = "resolved" /\ msgLast'.got.kind = "channel"
          /\ msgLast'.got.text /\ msgLast'.got.guild
          /\ ("ViewChannel" \notin msgLast'.got.perms
              \/ "ReadMessageHistory" \notin msgLast'.got.perms))
           => (/\ msgLast'.status = 403 /\ msgLast'.err = "Forbidden"
               /\ msgLast'.permChecked /\ ~msgLast'.historyIssued
               /\ ~HistoryStarted)
      /\ (HistoryStarted \/ msgLast'.historyIssued)
           => (/\ HistoryStarted /\ msgLast'.historyIssued
               /\ msgLast'.ev = "resolved" /\ msgLast'.permChecked
               /\ msgLast'.got.kind = "channel" /\ msgLast'.got.text
               /\ "ViewChannel" \in msgLast'.got.perms
               /\ "ReadMessageHistory" \in msgLast'.got.perms
               /\ msgLast'.status = 0) ]_vars

\* The bot may view the channel but not read its history: Forbidden.
C16_Witness ==
  /\ msgLast.ev = "resolved" /\ msgLast.status = 403
  /\ msgLast.got.perms = {"ViewChannel"}

\* C17: when the login of the bot session is rejected the process exits,
\* and a request is taken up only by a process whose login has resolved.
C17_ServesOnlyAuthenticated ==
  [][ /\ login' = "rejected" => exited'
      /\ msgLast'.ev = "arrive" => (login = "resolved" /\ ~exited) ]_vars

\* C18: no two Endpoints of the registry have the same id.
C18_UniqueId ==
  \A i, j \in 1..Len(webhooks) : webhooks[i].id = webhooks[j].id => i = j

\* C19: in the capped-wait revision, when the remote validation call is
\* answered 429 with a retry-after of more than 10 seconds, the Register is
\* answered 429 RateLimited in that step: the request is over, no handler
\* starts to sleep, nothing is called, and the success cache, the registry
\* and the cooldown map stay as they are.
C19_OverCapFailsAtOnce ==
  [][ (/\ last'.ev = "settle" /\ last'.op = "add-webhook" /\ variant = "capped"
       /\ answer'.kind = "response" /\ answer'.status = 429
       /\ answer'.header.kind = "num" /\ answer'.header.whole > 10)
        => (/\ last'.status = 429 /\ last'.err = "RateLimited" /\ ~last'.remote
            /\ \A h \in Handlers : handlers'[h].pc = "sleep" => handlers'[h] = handlers[h]
            /\ Cardinality(Pending(handlers')) = Cardinality(Pending(handlers)) - 1
            /\ UNCHANGED <<webhooks, webhookCache, lastAttempts>>) ]_vars

\* The first remote call of a Register was answered 429 with retry-after 11.
C19_Witness ==
  /\ variant = "capped" /\ last.ev = "settle" /\ last.err = "RateLimited"
  /\ last.calls = 1 /\ answer.status = 429 /\ answer.header.whole = 11

\* C20: a Register for a url that has a success-cache entry, made less than
\* 5 s after the latest recorded attempt for that url, is answered
\* TooManyAttempts and gets no Endpoint; a Register for a url with no
\* attempt recorded in the last 5 s is never answered TooManyAttempts,
\* whatever was attempted for other urls; and a step of a Register leaves
\* the cooldown entries of all other urls as they are.
C20_CooldownBeforeCache ==
  [][ /\ (Arrives("add-webhook") /\ last'.url \in DOMAIN webhookCache
          /\ ~CooldownExpired(last'.url))
           => (/\ last'.status = 429 /\ last'.err = "TooManyAttempts"
               /\ last'.validated = <<>> /\ last'.webhook = <<>>
               /\ ~last'.remote /\ webhooks' = webhooks)
      /\ (Arrives("add-webhook") /\ CooldownExpired(last'.url))
           => last'.err # "TooManyAttempts"
      /\ last'.op = "add-webhook"
           => \A u \in (DOMAIN lastAttempts \cup DOMAIN lastAttempts') \ {last'.url} :
                /\ u \in DOMAIN lastAttempts /\ u \in DOMAIN lastAttempts'
                /\ lastAttempts'[u] = lastAttempts[u] ]_vars

\* A Register for a cached url was rejected 2.5 s after the attempt recorded
\* for it, while an attempt for another url is recorded at the current time.
C20_Witness ==
  /\ last.ev = "arrive" /\ last.op = "add-webhook" /\ last.err = "TooManyAttempts"
  /\ last.url \in DOMAIN webhookCache /\ clock - lastAttempts[last.url] = 2500
  /\ \E u \in DOMAIN lastAttempts : u # last.url /\ lastAttempts[u] = clock

\* the request whose sleep ends in the step
Woken(h) == handlers[h].pc = "sleep" /\ handlers'[h] # handlers[h]

\* C21 as stated: in the capped-wait revision the retry after a sleep of
\* less than 5 s is answered TooManyAttempts and calls nothing.
C21_ShortDelayRetryRejected ==
  [][ \A h \in Handlers :
        (last'.ev = "wake" /\ Woken(h) /\ handlers[h].slept < 5000)
          => (/\ last'.status = 429 /\ last'.err = "TooManyAttempts"
              /\ ~last'.remote /\ last'.calls = 1) ]_vars

\* C21, amended: in the capped-wait revision the retry after a sleep is
\* answered TooManyAttempts, and calls nothing, exactly when it runs less
\* than 5 s after the latest attempt recorded for the url, that is when the
\* time the remote call took plus the delay is below 5 s; otherwise it
\* passes the cooldown check, records its time, and calls the remote
\* platform again unless the success cache has the url by then.
C21_RetryRejectedWithinWindow ==
  [][ \A h \in Handlers :
        (last'.ev = "wake" /\ Woken(h))
          => IF clock - lastAttempts[last'.url] < 5000
               THEN /\ last'.status = 429 /\ last'.err = "TooManyAttempts"
                    /\ ~last'.remote /\ last'.calls = handlers[h].calls
                    /\ handlers'[h] = Idle /\ lastAttempts' = lastAttempts
               ELSE /\ last'.err # "TooManyAttempts"
                    /\ lastAttempts'[last'.url] = clock
                    /\ IF last'.url \in DOMAIN webhookCache
                         THEN ~last'.remote /\ last'.calls = handlers[h].calls
                         ELSE /\ last'.remote
                              /\ last'.calls = handlers[h].calls + 1
                              /\ handlers'[h].pc = "fetch" ]_vars

\* A retry was rejected 2.5 s after the attempt that recorded the cooldown,
\* after one remote call.
C21_Witness ==
  /\ variant = "capped" /\ last.ev = "wake" /\ last.err = "TooManyAttempts"
  /\ last.calls = 1 /\ clock - lastAttempts[last.url] = 2500

\* C22: a validation attempt answered TooManyAttempts leaves the cooldown
\* map as it is; after every step the cooldown map holds, for each url, the
\* time of the latest attempt for it that was not rejected; and a Register
\* with a well-formed url made 5 s or more after that attempt is not
\* answered TooManyAttempts and records its own time.
C22_RejectedDoesNotRefresh ==
  [][ /\ (last'.op = "add-webhook" /\ last'.err = "TooManyAttempts")
           => lastAttempts' = lastAttempts
      /\ lastAttempts' = windowStart'
      /\ (Arrives("add-webhook") /\ WellFormed(last'.url)
          /\ last'.url \in DOMAIN windowStart
          /\ clock - windowStart[last'.url] >= 5000)
           => (/\ last'.err # "TooManyAttempts"
               /\ lastAttempts'[last'.url] = clock) ]_vars

\* A Register was rejected 2.5 s after the attempt that opened the window,
\* and the cooldown map still holds the time of that attempt.
C22_Witness ==
  /\ last.ev = "arrive" /\ last.op = "add-webhook" /\ last.err = "TooManyAttempts"
  /\ clock = 2500 /\ lastAttempts[last.url] = 0 /\ windowStart[last.url] = 0

\* C23: a Delete changes neither the success cache nor the cooldown map,
\* and the Endpoint it removes is the success-cache entry of its url; a
\* Register of a url that is in the success cache and not in the registry,
\* made when no cooldown is running for the url, is answered 200, appends
\* that cache entry to the registry and calls nothing.
C23_DeleteKeepsCache ==
  [][ /\ Arrives("delete")
           => (/\ UNCHANGED <<webhookCache, lastAttempts, handlers>>
               /\ last'.status = 200
                    => \E i \in 1..Len(webhooks) :
                         /\ webhooks[i].id = last'.id
                         /\ webhooks' = [j \in 1..(Len(webhooks) - 1) |->
                                           IF j < i THEN webhooks[j] ELSE webhooks[j + 1]]
                         /\ webhooks[i].url \in DOMAIN webhookCache'
                         /\ webhookCache'[webhooks[i].url] = webhooks[i])
      /\ (Arrives("add-webhook") /\ last'.url \in DOMAIN webhookCache
          /\ ~InRegistry(last'.url) /\ CooldownExpired(last'.url))
           => (/\ last'.status = 200 /\ ~last'.remote /\ last'.calls = 0
               /\ last'.webhook = <<webhookCache[last'.url]>>
               /\ webhooks' = Append(webhooks, webhookCache[last'.url])
               /\ webhookCache' = webhookCache /\ handlers' = handlers) ]_vars

\* A Register was answered 200 without a remote call: the url was validated
\* and registered, then deleted, and is registered again from the cache a
\* cooldown window later.
C23_Witness ==
  /\ last.ev = "arrive" /\ last.op = "add-webhook" /\ last.status = 200
  /\ last.calls = 0 /\ last.url \in validatedOk /\ clock >= cooldownMs
  /\ InRegistry(last.url) /\ last.webhook = <<webhookCache[last.url]>>

====
